---- MODULE Spec2Model ----
(***************************************************************************)
(* The TOON encoder of totoon (src/js/src/core.ts) as a state machine.     *)
(*                                                                         *)
(* Text is a sequence of one-character strings, so that escaping, quoting  *)
(* and joining are computed character by character as the code does it.    *)
(* A ToonValue is a record tagged by "kind"; an object keeps its           *)
(* properties as the sequence of <<key, value>> pairs in the order in      *)
(* which they were inserted, and Object.keys is computed from that order   *)
(* by the rule of the language (array-index keys first, ascending).        *)
(*                                                                         *)
(* The pipe-table variant of the encoder (src/unnamed/part_000) and its Go *)
(* port (src/go/totoon.go) are modelled next to it, on the same values.    *)
(*                                                                         *)
(* tree and width are the arguments of the current call, pc is the         *)
(* position of the caller, result is the outcome of the current call and   *)
(* calls is the sequence of the encoder calls completed so far.            *)
(***************************************************************************)
EXTENDS Integers, Sequences, FiniteSets, TLC

VARIABLES tree, width, pc, result, calls

vars == <<tree, width, pc, result, calls>>

-----------------------------------------------------------------------------
(* Characters and text helpers (String.prototype methods used by core.ts). *)

NL == "\n"
TAB == "\t"
CR == "\r"
BSL == "\\"
DQ == "\""

\* Marks the text of a call that threw: an exception aborts the whole call,
\* and every text the encoder computes ends up in its result, so a result
\* holding the mark stands for "toToon threw a TypeError".
TypeErrorMark == "TypeError: Cannot convert undefined or null to object"

Thrown(t) == \E i \in 1..Len(t) : t[i] = TypeErrorMark

RECURSIVE Flatten(_)
\* The concatenation of a sequence of sequences.
Flatten(ss) == IF ss = <<>> THEN <<>> ELSE Head(ss) \o Flatten(Tail(ss))

RECURSIVE Join(_, _)
\* Array.prototype.join: the texts of parts separated by sep.
Join(parts, sep) ==
    IF parts = <<>> THEN <<>>
    ELSE IF Len(parts) = 1 THEN parts[1]
    ELSE parts[1] \o sep \o Join(Tail(parts), sep)

\* String.prototype.includes for a one-character needle.
Includes(t, c) == \E i \in 1..Len(t) : t[i] = c

\* String.prototype.replace(/c/g, rep).
ReplaceAll(t, c, rep) ==
    Flatten([i \in 1..Len(t) |-> IF t[i] = c THEN rep ELSE <<t[i]>>])

\* ' '.repeat(n)
Repeat(n) == [i \in 1..n |-> " "]

StartsWith(t, c) == Len(t) >= 1 /\ t[1] = c
EndsWith(t, c) == Len(t) >= 1 /\ t[Len(t)] = c

-----------------------------------------------------------------------------
(* The value model: ToonValue = string | number | boolean | null |         *)
(* ToonObject | ToonArray.  A number is the decimal m * 10^(-e).           *)

Null == [kind |-> "null"]
Bool(b) == [kind |-> "boolean", b |-> b]
Num(m, e) == [kind |-> "number", m |-> m, e |-> e]
Str(s) == [kind |-> "string", s |-> s]
Arr(items) == [kind |-> "array", items |-> items]
Obj(props) == [kind |-> "object", props |-> props]

\* typeof v === 'object' && v !== null && !Array.isArray(v)
IsObject(v) == v.kind = "object"
IsArray(v) == v.kind = "array"

DigitChars == <<"0", "1", "2", "3", "4", "5", "6", "7", "8", "9">>

IsDigit(c) == \E d \in 1..10 : DigitChars[d] = c

DigitValue(c) == (CHOOSE d \in 1..10 : DigitChars[d] = c) - 1

RECURSIVE Digits(_)
\* The decimal digits of a natural number.
Digits(n) ==
    IF n < 10 THEN <<DigitChars[n + 1]>>
    ELSE Digits(n \div 10) \o <<DigitChars[(n % 10) + 1]>>

RECURSIVE Pow10(_)
Pow10(e) == IF e = 0 THEN 1 ELSE 10 * Pow10(e - 1)

\* The e digits of f, with leading zeros.
Padded(f, e) ==
    LET ds == Digits(f)
    IN  [i \in 1..(e - Len(ds)) |-> "0"] \o ds

\* String(n) for a number in plain decimal range: sign, integer part and,
\* if any, the fraction digits.
NumberToString(v) ==
    LET a == IF v.m < 0 THEN -v.m ELSE v.m
        sign == IF v.m < 0 THEN <<"-">> ELSE <<>>
        ip == a \div Pow10(v.e)
        fp == a % Pow10(v.e)
    IN  IF v.e = 0 THEN sign \o Digits(a)
        ELSE sign \o Digits(ip) \o <<".">> \o Padded(fp, v.e)

-----------------------------------------------------------------------------
(* Property enumeration and lookup of the language.                        *)

\* A canonical array index: "0", or digits without a leading zero.
IsArrayIndex(k) ==
    /\ Len(k) >= 1
    /\ \A i \in 1..Len(k) : IsDigit(k[i])
    /\ (Len(k) > 1 => k[1] # "0")

RECURSIVE ParseIndex(_)
ParseIndex(k) ==
    IF k = <<>> THEN 0
    ELSE 10 * ParseIndex(SubSeq(k, 1, Len(k) - 1)) + DigitValue(k[Len(k)])

NotArrayIndex(k) == ~IsArrayIndex(k)

RECURSIVE Ascending(_)
\* The array-index keys of a set, in ascending numeric order.
Ascending(ks) ==
    IF ks = {} THEN <<>>
    ELSE LET least == CHOOSE k \in ks : \A o \in ks : ParseIndex(k) <= ParseIndex(o)
         IN  <<least>> \o Ascending(ks \ {least})

\* OrdinaryOwnPropertyKeys: of keys given in insertion order, the array-index
\* keys come first in ascending numeric order, the other keys follow in
\* insertion order.
OwnPropertyKeys(ks) ==
    Ascending({ks[i] : i \in {j \in 1..Len(ks) : IsArrayIndex(ks[j])}})
        \o SelectSeq(ks, NotArrayIndex)

\* The keys "0" .. "n-1" of an array or a string of length n.
IndexKeys(n) == [i \in 1..n |-> Digits(i - 1)]

\* Object.keys(v) for a value that is not null.
ObjectKeys(v) ==
    CASE v.kind = "object" -> OwnPropertyKeys([i \in 1..Len(v.props) |-> v.props[i][1]])
      [] v.kind = "array" -> IndexKeys(Len(v.items))
      [] v.kind = "string" -> IndexKeys(Len(v.s))
      [] OTHER -> <<>>

Undefined == [kind |-> "undefined"]

\* v[k]: an own property of an object, an element of an array, a character
\* of a string; undefined otherwise.
GetProp(v, k) ==
    CASE v.kind = "object" ->
            IF \E i \in 1..Len(v.props) : v.props[i][1] = k
            THEN v.props[CHOOSE i \in 1..Len(v.props) : v.props[i][1] = k][2]
            ELSE Undefined
      [] v.kind = "array" ->
            IF IsArrayIndex(k) /\ ParseIndex(k) < Len(v.items)
            THEN v.items[ParseIndex(k) + 1] ELSE Undefined
      [] v.kind = "string" ->
            IF IsArrayIndex(k) /\ ParseIndex(k) < Len(v.s)
            THEN Str(<<v.s[ParseIndex(k) + 1]>>) ELSE Undefined
      [] OTHER -> Undefined

RECURSIVE FirstSeen(_)
\* The keys of ks without repetitions, each at its first occurrence: the
\* insertion order of a dictionary filled by d[k] = true for k in ks.
FirstSeen(ks) ==
    IF ks = <<>> THEN <<>>
    ELSE LET init == FirstSeen(SubSeq(ks, 1, Len(ks) - 1))
             last == ks[Len(ks)]
         IN  IF \E i \in 1..Len(init) : init[i] = last THEN init
             ELSE Append(init, last)

\* value ?? '': null and undefined become the empty string.
OrEmpty(v) == IF v.kind \in {"null", "undefined"} THEN Str(<<>>) ELSE v

-----------------------------------------------------------------------------
(* The encoder: toToon, dictToToon, listToToon, listOfObjectsToToon,       *)
(* valueToToon of src/js/src/core.ts.                                      *)

Lit_null == <<"n", "u", "l", "l">>
Lit_true == <<"t", "r", "u", "e">>
Lit_false == <<"f", "a", "l", "s", "e">>
Lit_emptyList == <<"[", "]">>
Lit_emptyDict == <<"{", "}">>

Quoted(t) == <<DQ>> \o t \o <<DQ>>

\* TopLevelSpecial with the carriage return of valueToToon's class added.
TopLevelSpecial_WithCR == {NL, TAB, CR, ":", "|", DQ}

\* The characters that make toToon quote a top-level string: /[\n\t:|"]/
TopLevelSpecial == {NL, TAB, ":", "|", DQ}

\* The replace chain of toToon: backslash, double quote, newline.
TopLevelEscaped(s) ==
    ReplaceAll(ReplaceAll(ReplaceAll(s, BSL, <<BSL, BSL>>), DQ, <<BSL, DQ>>),
               NL, <<BSL, "n">>)

\* The characters that make valueToToon quote a string: /[\n\t\r]/
ControlChars == {NL, TAB, CR}

\* ValueEscaped without the carriage-return replacement (the chain of toToon
\* extended by the tab only).
ValueEscaped_NoCR(s) ==
    ReplaceAll(
      ReplaceAll(ReplaceAll(ReplaceAll(s, BSL, <<BSL, BSL>>), DQ, <<BSL, DQ>>),
                 NL, <<BSL, "n">>),
      TAB, <<BSL, "t">>)

\* The replace chain of valueToToon: backslash, double quote, newline,
\* carriage return, tab.
ValueEscaped(s) ==
    ReplaceAll(
      ReplaceAll(
        ReplaceAll(ReplaceAll(ReplaceAll(s, BSL, <<BSL, BSL>>), DQ, <<BSL, DQ>>),
                   NL, <<BSL, "n">>),
        CR, <<BSL, "r">>),
      TAB, <<BSL, "t">>)

\* The string branch of valueToToon.
StringToToon(s) ==
    IF \E c \in ControlChars : Includes(s, c) THEN Quoted(ValueEscaped(s)) ELSE s

\* value.length > 0 && typeof value[0] === 'object' && value[0] !== null
\* && !Array.isArray(value[0]), for an array value.
FirstIsObject(value) == Len(value.items) > 0 /\ IsObject(value.items[1])

\* The condition that sends a mapping value to the "complex" branch of
\* dictToToon: a non-empty array or an object with at least one key.
IsComplex(value) ==
    \/ IsArray(value) /\ Len(value.items) > 0
    \/ IsObject(value) /\ Len(ObjectKeys(value)) > 0

\* const dataPrefix = '  '
dataPrefix == <<" ", " ">>

\* Whether a cell text starts and ends with a double quote.
AlreadyQuoted(t) == StartsWith(t, DQ) /\ EndsWith(t, DQ)

RECURSIVE dictToToon(_, _, _)
RECURSIVE listToToon(_, _, _)
RECURSIVE listOfObjectsToToon(_, _, _, _)
RECURSIVE valueToToon(_, _, _)

valueToToon(value, indent, level) ==
    CASE value.kind = "null" -> Lit_null
      [] value.kind = "boolean" -> (IF value.b THEN Lit_true ELSE Lit_false)
      [] value.kind = "number" -> NumberToString(value)
      [] value.kind = "string" -> StringToToon(value.s)
      [] value.kind = "array" -> <<NL>> \o listToToon(value, indent, level)
      [] value.kind = "object" -> <<NL>> \o dictToToon(value, indent, level)

\* The loop body of dictToToon rendering a nested mapping at the level of
\* its key instead of one level deeper.
DictEntryLines_SameLevel(data, key, indent, level) ==
    LET value == GetProp(data, key)
        prefix == Repeat(indent * level)
    IN  IF IsComplex(value)
        THEN IF IsArray(value)
             THEN IF FirstIsObject(value)
                  THEN <<listOfObjectsToToon(key, value, indent, level)>>
                  ELSE <<prefix \o key \o <<":">>,
                         listToToon(value, indent, level + 1)>>
             ELSE <<prefix \o key \o <<":">>,
                    dictToToon(value, indent, level)>>
        ELSE <<prefix \o key \o <<":", " ">> \o valueToToon(value, indent, level + 1)>>

\* The lines one key of a mapping contributes (the body of the loop of
\* dictToToon).
DictEntryLines(data, key, indent, level) ==
    LET value == GetProp(data, key)
        prefix == Repeat(indent * level)
    IN  IF IsComplex(value)
        THEN IF IsArray(value)
             THEN IF FirstIsObject(value)
                  THEN <<listOfObjectsToToon(key, value, indent, level)>>
                  ELSE <<prefix \o key \o <<":">>,
                         listToToon(value, indent, level + 1)>>
             ELSE <<prefix \o key \o <<":">>,
                    dictToToon(value, indent, level + 1)>>
        ELSE <<prefix \o key \o <<":", " ">> \o valueToToon(value, indent, level + 1)>>

\* dictToToon without its test for a mapping that has no keys.
dictToToon_NoEmptyCheck(data, indent, level) ==
    LET keys == ObjectKeys(data)
    IN  Join(Flatten([i \in 1..Len(keys) |->
                         DictEntryLines(data, keys[i], indent, level)]),
             <<NL>>)

dictToToon(data, indent, level) ==
    LET keys == ObjectKeys(data)
    IN  IF Len(keys) = 0 THEN Lit_emptyDict
        ELSE Join(Flatten([i \in 1..Len(keys) |->
                              DictEntryLines(data, keys[i], indent, level)]),
                  <<NL>>)

\* listToToon ending each entry with a line terminator instead of joining
\* the entries with one.
listToToon_TerminatedLines(data, indent, level) ==
    IF Len(data.items) = 0 THEN Lit_emptyList
    ELSE IF FirstIsObject(data) THEN listOfObjectsToToon(<<>>, data, indent, level)
    ELSE LET prefix == Repeat(indent * level)
         IN  Flatten([i \in 1..Len(data.items) |->
                        prefix \o <<"-", " ">>
                            \o valueToToon(data.items[i], indent, level) \o <<NL>>])

listToToon(data, indent, level) ==
    IF Len(data.items) = 0 THEN Lit_emptyList
    ELSE IF FirstIsObject(data) THEN listOfObjectsToToon(<<>>, data, indent, level)
    ELSE LET prefix == Repeat(indent * level)
         IN  Join([i \in 1..Len(data.items) |->
                      prefix \o <<"-", " ">> \o valueToToon(data.items[i], indent, level)],
                  <<NL>>)

\* The union of the keys of the elements, as Object.keys(allKeysDict) gives
\* it after the elements' keys were inserted element by element.
AllKeys(items) ==
    OwnPropertyKeys(FirstSeen(Flatten([i \in 1..Len(items) |-> ObjectKeys(items[i])])))

\* A cell holding an array whose first element is an object:
\* [count]{fields}:row;row
NestedTableCell(value) ==
    LET objs == SelectSeq(value.items, IsObject)
        nestedKeys == AllKeys(objs)
        quote(nvStr) ==
            IF Includes(nvStr, ",") \/ Includes(nvStr, ";") \/ Includes(nvStr, ":")
            THEN Quoted(nvStr) ELSE nvStr
        row(nestedObj) ==
            Join([j \in 1..Len(nestedKeys) |->
                    quote(valueToToon(OrEmpty(GetProp(nestedObj, nestedKeys[j])), 0, 0))],
                 <<",">>)
    IN  <<"[">> \o Digits(Len(value.items)) \o <<"]", "{">>
            \o Join(nestedKeys, <<",">>) \o <<"}", ":">>
            \o Join([i \in 1..Len(objs) |-> row(objs[i])], <<";">>)

\* A cell holding any other array: [item,item]
BracketCell(value) ==
    <<"[">> \o Join([i \in 1..Len(value.items) |-> valueToToon(value.items[i], 0, 0)],
                    <<",">>)
            \o <<"]">>

\* A cell holding an object: {k:v,k:v}
NestedObjectCell(value) ==
    LET ks == ObjectKeys(value)
        quote(nvStr) ==
            IF Includes(nvStr, ",") \/ Includes(nvStr, ":")
            THEN Quoted(nvStr) ELSE nvStr
    IN  <<"{">> \o Join([j \in 1..Len(ks) |->
                           ks[j] \o <<":">> \o quote(valueToToon(GetProp(value, ks[j]), 0, 0))],
                        <<",">>)
            \o <<"}">>

\* A cell holding a scalar: quoted when it holds a comma, newline, colon or
\* semicolon and is not already quoted.
ScalarCell(value) ==
    LET valueStr == valueToToon(value, 0, 0)
    IN  IF ~AlreadyQuoted(valueStr)
           /\ (\/ Includes(valueStr, ",") \/ Includes(valueStr, NL)
               \/ Includes(valueStr, ":") \/ Includes(valueStr, ";"))
        THEN Quoted(ReplaceAll(valueStr, DQ, <<BSL, DQ>>))
        ELSE valueStr

\* The text of the cell of column k in the row of obj.
Cell(obj, k) ==
    LET value == OrEmpty(GetProp(obj, k))
    IN  IF IsArray(value)
        THEN IF FirstIsObject(value) THEN NestedTableCell(value) ELSE BracketCell(value)
        ELSE IF IsObject(value) THEN NestedObjectCell(value)
        ELSE ScalarCell(value)

\* The header line: key[count]{field1,field2}:
TableHeader(key, count, allKeys, prefix) ==
    prefix \o key \o <<"[">> \o Digits(count) \o <<"]", "{">>
        \o Join(allKeys, <<",">>) \o <<"}", ":">>

\* One data row.
TableRow(obj, allKeys) ==
    dataPrefix \o Join([j \in 1..Len(allKeys) |-> Cell(obj, allKeys[j])], <<",">>)

listOfObjectsToToon(key, data, indent, level) ==
    IF Len(data.items) = 0 \/ ~IsObject(data.items[1])
    THEN listToToon(data, indent, level)
    ELSE IF \E i \in 1..Len(data.items) : data.items[i].kind = "null"
    THEN <<TypeErrorMark>>
    ELSE LET prefix == Repeat(indent * level)
             allKeys == AllKeys(data.items)
         IN  IF Len(allKeys) = 0 THEN Lit_emptyList
             ELSE Join(<<TableHeader(key, Len(data.items), allKeys, prefix)>>
                          \o [i \in 1..Len(data.items) |-> TableRow(data.items[i], allKeys)],
                       <<NL>>)

\* toToon collecting its lines in a buffer that outlives the call: what an
\* earlier call returned comes before the lines of this call.
toToon_SharedLines(data, indent) ==
    LET own == CASE data.kind = "null" -> Lit_null
                 [] data.kind = "boolean" -> (IF data.b THEN Lit_true ELSE Lit_false)
                 [] data.kind = "number" -> NumberToString(data)
                 [] data.kind = "string" ->
                       IF \E c \in TopLevelSpecial : Includes(data.s, c)
                       THEN Quoted(TopLevelEscaped(data.s)) ELSE data.s
                 [] data.kind = "array" -> listToToon(data, indent, 0)
                 [] data.kind = "object" -> dictToToon(data, indent, 0)
    IN  IF calls = <<>> THEN own
        ELSE calls[Len(calls)].outcome.out \o <<NL>> \o own

toToon(data, indent) ==
    CASE data.kind = "null" -> Lit_null
      [] data.kind = "boolean" -> (IF data.b THEN Lit_true ELSE Lit_false)
      [] data.kind = "number" -> NumberToString(data)
      [] data.kind = "string" ->
            IF \E c \in TopLevelSpecial : Includes(data.s, c)
            THEN Quoted(TopLevelEscaped(data.s)) ELSE data.s
      [] data.kind = "array" -> listToToon(data, indent, 0)
      [] data.kind = "object" -> dictToToon(data, indent, 0)

\* The outcome of a call: the text returned, or the error thrown.
Returned(t) == [threw |-> FALSE, out |-> t, err |-> ""]
Threw(msg) == [threw |-> TRUE, out |-> <<>>, err |-> msg]
NoResult == [threw |-> FALSE, out |-> <<>>, err |-> "none"]

\* A fromToon that returns an empty result for the empty string.
fromToon_EmptyOk(toonStr) ==
    IF toonStr = <<>> THEN Returned(<<>>)
    ELSE Threw("TOON parsing is not yet implemented")

\* fromToon throws whatever its argument.
fromToon(toonStr) == Threw("TOON parsing is not yet implemented")

\* A call of toToon as its caller sees it.
CallOf(data, indent) ==
    LET t == toToon(data, indent)
    IN  IF Thrown(t) THEN Threw(TypeErrorMark) ELSE Returned(t)

-----------------------------------------------------------------------------
(* The pipe-table variant of the encoder. Its toToon, dictToToon and        *)
(* listToToon are those above, line for line; its listOfObjectsToToon and    *)
(* its valueToToon differ.                                                   *)

\* The characters that make this valueToToon quote a string: /[\n\t:|"]/
PipeSpecial == {NL, TAB, ":", "|", DQ}

\* Its replace chain: backslash, double quote, newline.
PipeEscaped(s) ==
    ReplaceAll(ReplaceAll(ReplaceAll(s, BSL, <<BSL, BSL>>), DQ, <<BSL, DQ>>),
               NL, <<BSL, "n">>)

\* The string branch of this valueToToon.
StringToToonPipe(s) ==
    IF \E c \in PipeSpecial : Includes(s, c) THEN Quoted(PipeEscaped(s)) ELSE s

\* allKeys.map(() => '---')
SeparatorCell == <<"-", "-", "-">>

\* The separator of header cells, separator cells and row cells: ' | '
PipeJoin == <<" ", "|", " ">>

RECURSIVE dictToToonPipe(_, _, _)
RECURSIVE listToToonPipe(_, _, _)
RECURSIVE listOfObjectsToToonPipe(_, _, _, _)
RECURSIVE valueToToonPipe(_, _, _)

valueToToonPipe(value, indent, level) ==
    CASE value.kind = "null" -> Lit_null
      [] value.kind = "boolean" -> (IF value.b THEN Lit_true ELSE Lit_false)
      [] value.kind = "number" -> NumberToString(value)
      [] value.kind = "string" -> StringToToonPipe(value.s)
      [] value.kind = "array" -> <<NL>> \o listToToonPipe(value, indent, level)
      [] value.kind = "object" -> <<NL>> \o dictToToonPipe(value, indent, level)

\* The lines one key of a mapping contributes (the body of the loop of
\* dictToToon).
DictEntryLinesPipe(data, key, indent, level) ==
    LET value == GetProp(data, key)
        prefix == Repeat(indent * level)
    IN  IF IsComplex(value)
        THEN IF IsArray(value)
             THEN IF FirstIsObject(value)
                  THEN <<listOfObjectsToToonPipe(key, value, indent, level)>>
                  ELSE <<prefix \o key \o <<":">>,
                         listToToonPipe(value, indent, level + 1)>>
             ELSE <<prefix \o key \o <<":">>,
                    dictToToonPipe(value, indent, level + 1)>>
        ELSE <<prefix \o key \o <<":", " ">>
                 \o valueToToonPipe(value, indent, level + 1)>>

dictToToonPipe(data, indent, level) ==
    LET keys == ObjectKeys(data)
    IN  IF Len(keys) = 0 THEN Lit_emptyDict
        ELSE Join(Flatten([i \in 1..Len(keys) |->
                              DictEntryLinesPipe(data, keys[i], indent, level)]),
                  <<NL>>)

listToToonPipe(data, indent, level) ==
    IF Len(data.items) = 0 THEN Lit_emptyList
    ELSE IF FirstIsObject(data) THEN listOfObjectsToToonPipe(<<>>, data, indent, level)
    ELSE LET prefix == Repeat(indent * level)
         IN  Join([i \in 1..Len(data.items) |->
                      prefix \o <<"-", " ">>
                          \o valueToToonPipe(data.items[i], indent, level)],
                  <<NL>>)

\* The text of the cell of column k in the row of obj: the value's text,
\* wrapped in double quotes when it holds a pipe or a newline.
PipeCell(obj, k) ==
    LET valueStr == valueToToonPipe(OrEmpty(GetProp(obj, k)), 0, 0)
    IN  IF Includes(valueStr, "|") \/ Includes(valueStr, NL)
        THEN Quoted(valueStr) ELSE valueStr

listOfObjectsToToonPipe(key, data, indent, level) ==
    IF Len(data.items) = 0 \/ ~IsObject(data.items[1])
    THEN listToToonPipe(data, indent, level)
    ELSE IF \E i \in 1..Len(data.items) : data.items[i].kind = "null"
    THEN <<TypeErrorMark>>
    ELSE LET allKeys == AllKeys(data.items)
             labelled == key # <<>>
             prefix == IF labelled THEN Repeat(indent * (level + 1))
                       ELSE Repeat(indent * level)
             label == IF labelled THEN <<Repeat(indent * level) \o key \o <<":">>>>
                      ELSE <<>>
         IN  IF Len(allKeys) = 0 THEN Lit_emptyList
             ELSE Join(label
                          \o <<prefix \o Join(allKeys, PipeJoin),
                               prefix \o Join([j \in 1..Len(allKeys) |-> SeparatorCell],
                                              PipeJoin)>>
                          \o [i \in 1..Len(data.items) |->
                                prefix \o Join([j \in 1..Len(allKeys) |->
                                                  PipeCell(data.items[i], allKeys[j])],
                                               PipeJoin)],
                       <<NL>>)

toToonPipe(data, indent) ==
    CASE data.kind = "null" -> Lit_null
      [] data.kind = "boolean" -> (IF data.b THEN Lit_true ELSE Lit_false)
      [] data.kind = "number" -> NumberToString(data)
      [] data.kind = "string" ->
            IF \E c \in TopLevelSpecial : Includes(data.s, c)
            THEN Quoted(TopLevelEscaped(data.s)) ELSE data.s
      [] data.kind = "array" -> listToToonPipe(data, indent, 0)
      [] data.kind = "object" -> dictToToonPipe(data, indent, 0)

\* A call of the variant's toToon as its caller sees it.
CallOfPipe(data, indent) ==
    LET t == toToonPipe(data, indent)
    IN  IF Thrown(t) THEN Threw(TypeErrorMark) ELSE Returned(t)

-----------------------------------------------------------------------------
(* The Go port of the pipe-table encoder. A mapping is a Go map: a range     *)
(* over it visits its keys in an order the language leaves unspecified.      *)
(* Every operator takes that order as the argument order, a sequence of all  *)
(* the keys of the value without repetition; a range over a map visits the   *)
(* keys of the map as they follow each other in order.                       *)

\* return toToon(data, 2, 0)
DefaultIndent == 2

\* The keys of a map, and the value at a key.
MapHas(obj, k) == \E i \in 1..Len(obj.props) : obj.props[i][1] = k
MapGet(obj, k) == obj.props[CHOOSE i \in 1..Len(obj.props) : obj.props[i][1] = k][2]

\* The keys of every map nested in a value.
RECURSIVE KeysIn(_)
KeysIn(v) ==
    IF IsArray(v) THEN UNION {KeysIn(v.items[i]) : i \in 1..Len(v.items)}
    ELSE IF IsObject(v)
         THEN {v.props[i][1] : i \in 1..Len(v.props)}
                  \cup UNION {KeysIn(v.props[i][2]) : i \in 1..Len(v.props)}
         ELSE {}

\* The orders a call may see: the arrangements of the keys of the value.
Orders(v) ==
    LET ks == KeysIn(v)
    IN  {o \in [1..Cardinality(ks) -> ks] :
            \A i, j \in 1..Cardinality(ks) : i # j => o[i] # o[j]}

\* for key := range obj
RangeKeys(obj, order) == SelectSeq(order, LAMBDA k : MapHas(obj, k))

\* fmt.Sprintf("%v", v) of a number
SprintfV(v) == NumberToString(v)

\* The characters that make escapeString quote a string.
NeedsEscaping == {NL, TAB, ":", "|", DQ}

\* The switch of escapeString on one character.
EscapedRune(c) ==
    CASE c = BSL -> <<BSL, BSL>>
      [] c = DQ -> <<BSL, DQ>>
      [] c = NL -> <<BSL, "n">>
      [] c = TAB -> <<BSL, "t">>
      [] OTHER -> <<c>>

escapeString(s) ==
    IF \E i \in 1..Len(s) : s[i] \in NeedsEscaping
    THEN <<DQ>> \o Flatten([i \in 1..Len(s) |-> EscapedRune(s[i])]) \o <<DQ>>
    ELSE s

RECURSIVE dictToToonGo(_, _, _, _)
RECURSIVE listToToonGo(_, _, _, _)
RECURSIVE listOfObjectsToToonGo(_, _, _, _, _)
RECURSIVE valueToToonGo(_, _, _, _)

valueToToonGo(value, indent, level, order) ==
    CASE value.kind = "null" -> Lit_null
      [] value.kind = "boolean" -> (IF value.b THEN Lit_true ELSE Lit_false)
      [] value.kind = "number" -> SprintfV(value)
      [] value.kind = "string" -> escapeString(value.s)
      [] value.kind = "array" -> <<NL>> \o listToToonGo(value, indent, level, order)
      [] value.kind = "object" -> <<NL>> \o dictToToonGo(value, indent, level, order)

\* The lines one key of a map contributes (the body of the loop of
\* dictToToon).
DictEntryLinesGo(data, key, indent, level, order) ==
    LET value == MapGet(data, key)
        prefix == Repeat(indent * level)
        isComplex == \/ IsObject(value) /\ Len(value.props) > 0
                     \/ IsArray(value) /\ Len(value.items) > 0
        isListOfObjects == IsArray(value) /\ Len(value.items) > 0
                               /\ IsObject(value.items[1])
    IN  IF isComplex
        THEN IF isListOfObjects
             THEN <<listOfObjectsToToonGo(key, value, indent, level, order)>>
             ELSE IF IsObject(value)
                  THEN <<prefix \o key \o <<":">>,
                         dictToToonGo(value, indent, level + 1, order)>>
                  ELSE <<prefix \o key \o <<":">>,
                         listToToonGo(value, indent, level + 1, order)>>
        ELSE <<prefix \o key \o <<":", " ">>
                 \o valueToToonGo(value, indent, level + 1, order)>>

dictToToonGo(data, indent, level, order) ==
    LET keys == RangeKeys(data, order)
    IN  IF Len(data.props) = 0 THEN Lit_emptyDict
        ELSE Join(Flatten([i \in 1..Len(keys) |->
                              DictEntryLinesGo(data, keys[i], indent, level, order)]),
                  <<NL>>)

listToToonGo(data, indent, level, order) ==
    IF Len(data.items) = 0 THEN Lit_emptyList
    ELSE IF IsObject(data.items[1])
    THEN listOfObjectsToToonGo(<<>>, data, indent, level, order)
    ELSE LET prefix == Repeat(indent * level)
         IN  Join([i \in 1..Len(data.items) |->
                      prefix \o <<"-", " ">>
                          \o valueToToonGo(data.items[i], indent, level, order)],
                  <<NL>>)

\* The columns: the keys of the elements that are maps, element by element,
\* each key where a range first meets it.
AllKeysGo(items, order) ==
    LET objs == SelectSeq(items, IsObject)
    IN  FirstSeen(Flatten([i \in 1..Len(objs) |-> RangeKeys(objs[i], order)]))

\* The text of the cell of column k in the row of obj.
CellGo(obj, k, order) ==
    IF MapHas(obj, k)
    THEN LET value == valueToToonGo(MapGet(obj, k), 0, 0, order)
         IN  IF Includes(value, "|") \/ Includes(value, NL)
             THEN Quoted(value) ELSE value
    ELSE <<>>

listOfObjectsToToonGo(key, data, indent, level, order) ==
    IF Len(data.items) = 0 THEN Lit_emptyList
    ELSE IF ~IsObject(data.items[1]) THEN listToToonGo(data, indent, level, order)
    ELSE LET allKeys == AllKeysGo(data.items, order)
             objs == SelectSeq(data.items, IsObject)
             labelled == key # <<>>
             prefix == IF labelled THEN Repeat(indent * (level + 1))
                       ELSE Repeat(indent * level)
             label == IF labelled THEN <<Repeat(indent * level) \o key \o <<":">>>>
                      ELSE <<>>
         IN  IF Len(allKeys) = 0 THEN Lit_emptyList
             ELSE Join(label
                          \o <<prefix \o Join(allKeys, PipeJoin),
                               prefix \o Join([j \in 1..Len(allKeys) |-> SeparatorCell],
                                              PipeJoin)>>
                          \o [i \in 1..Len(objs) |->
                                prefix \o Join([j \in 1..Len(allKeys) |->
                                                  CellGo(objs[i], allKeys[j], order)],
                                               PipeJoin)],
                       <<NL>>)

toToonGo(data, indent, level, order) ==
    CASE data.kind = "null" -> Lit_null
      [] data.kind = "boolean" -> (IF data.b THEN Lit_true ELSE Lit_false)
      [] data.kind = "number" -> SprintfV(data)
      [] data.kind = "string" -> escapeString(data.s)
      [] data.kind = "array" -> listToToonGo(data, indent, level, order)
      [] data.kind = "object" -> dictToToonGo(data, indent, level, order)

ToToon(data, order) == toToonGo(data, DefaultIndent, 0, order)

-----------------------------------------------------------------------------
(* The Go port of the compact table encoder (src/unnamed/part_002). Its      *)
(* toToon, dictToToon and listToToon are those of the Go port above, line    *)
(* for line; its listOfObjectsToToon, valueToToon and escapeString differ.   *)

\* The characters that make this escapeString quote a string.
NeedsEscapingCsv == {NL, TAB, CR}

\* The switch of this escapeString on one character.
EscapedRuneCsv(c) ==
    CASE c = BSL -> <<BSL, BSL>>
      [] c = DQ -> <<BSL, DQ>>
      [] c = NL -> <<BSL, "n">>
      [] c = CR -> <<BSL, "r">>
      [] c = TAB -> <<BSL, "t">>
      [] OTHER -> <<c>>

escapeStringCsv(s) ==
    IF \E i \in 1..Len(s) : s[i] \in NeedsEscapingCsv
    THEN <<DQ>> \o Flatten([i \in 1..Len(s) |-> EscapedRuneCsv(s[i])]) \o <<DQ>>
    ELSE s

RECURSIVE dictToToonGoCsv(_, _, _, _)
RECURSIVE listToToonGoCsv(_, _, _, _)
RECURSIVE listOfObjectsToToonGoCsv(_, _, _, _, _)
RECURSIVE valueToToonGoCsv(_, _, _, _)

valueToToonGoCsv(value, indent, level, order) ==
    CASE value.kind = "null" -> Lit_null
      [] value.kind = "boolean" -> (IF value.b THEN Lit_true ELSE Lit_false)
      [] value.kind = "number" -> SprintfV(value)
      [] value.kind = "string" -> escapeStringCsv(value.s)
      [] value.kind = "array" -> <<NL>> \o listToToonGoCsv(value, indent, level, order)
      [] value.kind = "object" -> <<NL>> \o dictToToonGoCsv(value, indent, level, order)

\* The lines one key of a map contributes (the body of the loop of
\* dictToToon).
DictEntryLinesGoCsv(data, key, indent, level, order) ==
    LET value == MapGet(data, key)
        prefix == Repeat(indent * level)
        isComplex == \/ IsObject(value) /\ Len(value.props) > 0
                     \/ IsArray(value) /\ Len(value.items) > 0
        isListOfObjects == IsArray(value) /\ Len(value.items) > 0
                               /\ IsObject(value.items[1])
    IN  IF isComplex
        THEN IF isListOfObjects
             THEN <<listOfObjectsToToonGoCsv(key, value, indent, level, order)>>
             ELSE IF IsObject(value)
                  THEN <<prefix \o key \o <<":">>,
                         dictToToonGoCsv(value, indent, level + 1, order)>>
                  ELSE <<prefix \o key \o <<":">>,
                         listToToonGoCsv(value, indent, level + 1, order)>>
        ELSE <<prefix \o key \o <<":", " ">>
                 \o valueToToonGoCsv(value, indent, level + 1, order)>>

dictToToonGoCsv(data, indent, level, order) ==
    LET keys == RangeKeys(data, order)
    IN  IF Len(data.props) = 0 THEN Lit_emptyDict
        ELSE Join(Flatten([i \in 1..Len(keys) |->
                              DictEntryLinesGoCsv(data, keys[i], indent, level, order)]),
                  <<NL>>)

listToToonGoCsv(data, indent, level, order) ==
    IF Len(data.items) = 0 THEN Lit_emptyList
    ELSE IF IsObject(data.items[1])
    THEN listOfObjectsToToonGoCsv(<<>>, data, indent, level, order)
    ELSE LET prefix == Repeat(indent * level)
         IN  Join([i \in 1..Len(data.items) |->
                      prefix \o <<"-", " ">>
                          \o valueToToonGoCsv(data.items[i], indent, level, order)],
                  <<NL>>)

\* case []interface{} whose first element is a map: [count]{fields}:row;row
NestedTableCellGoCsv(val, order) ==
    LET nestedKeys == AllKeysGo(val.items, order)
        objs == SelectSeq(val.items, IsObject)
        sub(nestedObj, nk) ==
            IF MapHas(nestedObj, nk)
            THEN LET nv == valueToToonGoCsv(MapGet(nestedObj, nk), 0, 0, order)
                 IN  IF Includes(nv, ",") \/ Includes(nv, ";") \/ Includes(nv, ":")
                     THEN Quoted(nv) ELSE nv
            ELSE <<>>
    IN  <<"[">> \o Digits(Len(val.items)) \o <<"]", "{">>
            \o Join(nestedKeys, <<",">>) \o <<"}", ":">>
            \o Join([i \in 1..Len(objs) |->
                       Join([j \in 1..Len(nestedKeys) |-> sub(objs[i], nestedKeys[j])],
                            <<",">>)],
                    <<";">>)

\* case []interface{} otherwise: [item,item], '[]' when empty
BracketCellGoCsv(val, order) ==
    IF Len(val.items) = 0 THEN Lit_emptyList
    ELSE <<"[">> \o Join([j \in 1..Len(val.items) |->
                             valueToToonGoCsv(val.items[j], 0, 0, order)], <<",">>)
                \o <<"]">>

\* case map[string]interface{}: {k:v,k:v}
NestedObjectCellGoCsv(val, order) ==
    LET ks == RangeKeys(val, order)
        item(nk) ==
            LET nvStr == valueToToonGoCsv(MapGet(val, nk), 0, 0, order)
            IN  nk \o <<":">>
                   \o (IF Includes(nvStr, ",") \/ Includes(nvStr, ":")
                       THEN Quoted(nvStr) ELSE nvStr)
    IN  <<"{">> \o Join([j \in 1..Len(ks) |-> item(ks[j])], <<",">>) \o <<"}">>

\* default: a scalar, nil included
ScalarCellGoCsv(v, order) ==
    LET value == valueToToonGoCsv(v, 0, 0, order)
    IN  IF ~AlreadyQuoted(value)
           /\ (\/ Includes(value, ",") \/ Includes(value, NL)
               \/ Includes(value, ":") \/ Includes(value, ";"))
        THEN Quoted(ReplaceAll(value, DQ, <<BSL, DQ>>))
        ELSE value

\* The text of the cell of column k in the row of obj.
CellGoCsv(obj, k, order) ==
    IF MapHas(obj, k)
    THEN LET v == MapGet(obj, k)
         IN  IF IsArray(v)
             THEN IF Len(v.items) > 0 /\ IsObject(v.items[1])
                  THEN NestedTableCellGoCsv(v, order)
                  ELSE BracketCellGoCsv(v, order)
             ELSE IF IsObject(v) THEN NestedObjectCellGoCsv(v, order)
             ELSE ScalarCellGoCsv(v, order)
    ELSE <<>>

listOfObjectsToToonGoCsv(key, data, indent, level, order) ==
    IF Len(data.items) = 0 THEN Lit_emptyList
    ELSE IF ~IsObject(data.items[1]) THEN listToToonGoCsv(data, indent, level, order)
    ELSE LET allKeys == AllKeysGo(data.items, order)
             objs == SelectSeq(data.items, IsObject)
             prefix == Repeat(indent * level)
         IN  IF Len(allKeys) = 0 THEN Lit_emptyList
             ELSE Join(<<prefix \o key \o <<"[">> \o Digits(Len(data.items))
                            \o <<"]", "{">> \o Join(allKeys, <<",">>) \o <<"}", ":">>>>
                          \o [i \in 1..Len(objs) |->
                                dataPrefix \o Join([j \in 1..Len(allKeys) |->
                                                      CellGoCsv(objs[i], allKeys[j], order)],
                                                   <<",">>)],
                       <<NL>>)

toToonGoCsv(data, indent, level, order) ==
    CASE data.kind = "null" -> Lit_null
      [] data.kind = "boolean" -> (IF data.b THEN Lit_true ELSE Lit_false)
      [] data.kind = "number" -> SprintfV(data)
      [] data.kind = "string" -> escapeStringCsv(data.s)
      [] data.kind = "array" -> listToToonGoCsv(data, indent, level, order)
      [] data.kind = "object" -> dictToToonGoCsv(data, indent, level, order)

ToToonCsv(data, order) == toToonGoCsv(data, DefaultIndent, 0, order)

-----------------------------------------------------------------------------
(* The inputs: value trees a caller can pass, within bounds.               *)

MaxStrLen == 2
MaxKeys == 2
MaxItems == 2
MaxWidth == 2

\* Characters of the strings tried: a letter, the control characters, the
\* escape characters and the delimiters of the format.
StrChars == {"a", NL, TAB, CR, BSL, DQ, ":", "|"}

Strings == UNION {[1..n -> StrChars] : n \in 0..MaxStrLen}

\* Keys: letters and decimal digit strings.
Keys == {<<"a">>, <<"1">>, <<"2">>}

\* 0, 7, 42, -5, 100, 3.14, 0.5, -2.25, 10.01
Numbers == {Num(0, 0), Num(7, 0), Num(42, 0), Num(-5, 0), Num(100, 0),
            Num(314, 2), Num(5, 1), Num(-225, 2), Num(1001, 2)}

Scalars == {Null, Bool(TRUE), Bool(FALSE)} \cup Numbers \cup {Str(s) : s \in Strings}

\* Values of the entries of the mappings tried.
EntryValues == {Null, Num(30, 0), Str(<<"x", NL, "y">>), Arr(<<>>), Obj(<<>>)}

\* Elements of the sequences tried: scalars, mappings, sequences.
ItemValues == {Null, Num(1, 0), Str(<<"a", "b">>),
               Obj(<<>>), Obj(<< <<<<"a">>, Num(1, 0)>> >>),
               Obj(<< <<<<"b">>, Str(<<"x">>)>>, <<<<"a">>, Null>> >>),
               Obj(<< <<<<"2">>, Bool(TRUE)>>, <<<<"1">>, Str(<<"p", ",", "q">>)>> >>),
               Arr(<<>>), Arr(<<Num(1, 0), Arr(<<Num(2, 0)>>)>>)}

KeySeqs ==
    {ks \in UNION {[1..n -> Keys] : n \in 0..MaxKeys} :
        \A i, j \in 1..Len(ks) : i # j => ks[i] # ks[j]}

Mappings ==
    UNION {{Obj([i \in 1..Len(ks) |-> <<ks[i], vs[i]>>]) :
               vs \in [1..Len(ks) -> EntryValues]} : ks \in KeySeqs}

Sequences == {Arr(items) : items \in UNION {[1..n -> ItemValues] : n \in 0..MaxItems}}

\* {users: [{name: 'Alice', age: 30}, {name: 'Bob', age: 25}]}
UsersExample ==
    Obj(<< << <<"u", "s", "e", "r", "s">>,
              Arr(<< Obj(<< << <<"n", "a", "m", "e">>, Str(<<"A", "l", "i", "c", "e">>) >>,
                            << <<"a", "g", "e">>, Num(30, 0) >> >>),
                     Obj(<< << <<"n", "a", "m", "e">>, Str(<<"B", "o", "b">>) >>,
                            << <<"a", "g", "e">>, Num(25, 0) >> >>) >>) >> >>)

\* A value as the only entry of a mapping, and as the only item of a sequence.
Entry(k, v) == Obj(<< <<k, v>> >>)
Item(v) == Arr(<<v>>)

\* Elements of the sequences tried as mapping values.
RowValues == {Null, Str(<<"a", "b">>), Obj(<<>>), Obj(<< <<<<"a">>, Num(1, 0)>> >>),
              Obj(<< <<<<"2">>, Bool(TRUE)>>, <<<<"b">>, Str(<<"p", ",", "q">>)>> >>)}

Rows == {Arr(items) : items \in UNION {[1..n -> RowValues] : n \in 1..MaxItems}}

\* Strings as mapping values and as list items; sequences as mapping values,
\* at level 0 and at level 1.
Nested ==
    {Entry(<<"k">>, Str(s)) : s \in Strings}
        \cup {Item(Str(s)) : s \in Strings}
        \cup {Entry(<<"k">>, v) : v \in Rows}
        \cup {Entry(<<"o">>, Entry(<<"k">>, v)) : v \in Rows}

\* Strings for table cells: the strings above and strings with the cell
\* delimiters comma and semicolon, some of them with double quotes at both
\* ends.
CellStrings ==
    Strings \cup {<<"p", ",", "q">>, <<"p", ";", "q">>, <<",", NL>>, <<";", TAB>>,
                  <<DQ, ",", DQ>>, <<DQ, ":", DQ>>, <<DQ, ";", "q", DQ>>,
                  <<"p", DQ, ",">>}

\* Tables of one row and one column c whose cell holds a string: directly,
\* as the value of a nested mapping {n: s}, and as the sub-cell of a nested
\* table [{n: s}].
ScalarCellTable(s) == Item(Entry(<<"c">>, Str(s)))
MappingCellTable(s) == Item(Entry(<<"c">>, Entry(<<"n">>, Str(s))))
TableCellTable(s) == Item(Entry(<<"c">>, Item(Entry(<<"n">>, Str(s)))))

CellTables ==
    {ScalarCellTable(s) : s \in CellStrings}
        \cup {MappingCellTable(s) : s \in CellStrings}
        \cup {TableCellTable(s) : s \in CellStrings}

\* Mappings with at least one key and scalar values only, and mappings that
\* nest them two and three levels deep between scalar entries.
ScalarMappings ==
    {m \in Mappings : /\ Len(m.props) > 0
                      /\ \A i \in 1..Len(m.props) :
                            m.props[i][2].kind \in {"null", "number", "string"}}

NestedMappings ==
    {Obj(<< <<<<"p">>, Num(7, 0)>>, <<<<"o">>, m>>, <<<<"q">>, Str(<<"z">>)>> >>) :
        m \in ScalarMappings}
      \cup {Entry(<<"r">>, Obj(<< <<<<"o">>, m>>, <<<<"q">>, Bool(FALSE)>> >>)) :
               m \in ScalarMappings}

\* [1, 'hello', true, null]
MixedExample ==
    Arr(<<Num(1, 0), Str(<<"h", "e", "l", "l", "o">>), Bool(TRUE), Null>>)

\* Itemized sequences with a nested sequence: [1, [2]] as a mapping value,
\* and a nested sequence that holds null after a mapping.
ItemizedNested ==
    {Entry(<<"k">>, Arr(<<Num(1, 0), Arr(<<Num(2, 0)>>)>>)),
     Arr(<<Num(1, 0), Arr(<<Obj(<< <<<<"a">>, Num(1, 0)>> >>), Null>>)>>)}

\* Values for table cells that are mappings and sequences: mappings with no,
\* one and two keys (one with keys that are digits), sequences of mappings,
\* sequences of scalars, the empty sequence, and values that nest a sequence
\* or a mapping one level deeper.
CellValues ==
    {Obj(<<>>),
     Obj(<< <<<<"a">>, Num(1, 0)>> >>),
     Obj(<< <<<<"b">>, Str(<<"x">>)>>, <<<<"a">>, Null>> >>),
     Obj(<< <<<<"b">>, Str(<<"p", ",", "q">>)>>, <<<<"a">>, Bool(TRUE)>> >>),
     Obj(<< <<<<"2">>, Bool(TRUE)>>, <<<<"1">>, Str(<<"x">>)>> >>),
     Obj(<< <<<<"n">>, Obj(<< <<<<"x">>, Num(1, 0)>> >>)>> >>),
     Arr(<<>>),
     Arr(<<Num(1, 0), Str(<<"a">>), Null>>),
     Arr(<<Num(1, 0), Arr(<<Num(2, 0)>>)>>),
     Arr(<<Obj(<< <<<<"a">>, Num(1, 0)>> >>)>>),
     Arr(<<Obj(<< <<<<"a">>, Num(1, 0)>> >>),
           Obj(<< <<<<"b">>, Str(<<"x">>)>>, <<<<"a">>, Num(2, 0)>> >>)>>),
     Arr(<<Obj(<< <<<<"a">>, Num(1, 0)>> >>), Num(5, 0)>>)}

\* Tables of one row and one column c whose cell holds such a value.
NestedCellTables == {Item(Entry(<<"c">>, v)) : v \in CellValues}

Values ==
    Scalars \cup Mappings \cup Sequences \cup Nested \cup CellTables
        \cup ItemizedNested \cup NestedMappings \cup NestedCellTables
        \cup {UsersExample, MixedExample}

Widths == 0..MaxWidth

-----------------------------------------------------------------------------
(* The state machine: one call of an exported function on an input.        *)

\* The record of a call that has returned or thrown: the function, its
\* arguments and its outcome.
Call(fn, data, indent, outcome) ==
    [fn |-> fn, data |-> data, indent |-> indent, outcome |-> outcome]

Init ==
    /\ tree \in Values
    /\ width \in Widths
    /\ pc = "ready"
    /\ result = NoResult
    /\ calls = <<>>

\* toToon(tree, width)
CallToToon ==
    /\ pc = "ready"
    /\ result' = CallOf(tree, width)
    /\ pc' = "encoded"
    /\ calls' = Append(calls, Call("toToon", tree, width, result'))
    /\ UNCHANGED <<tree, width>>

\* fromToon(tree) for a string
CallFromToon ==
    /\ pc = "ready"
    /\ tree.kind = "string"
    /\ result' = fromToon(tree.s)
    /\ pc' = "decoded"
    /\ UNCHANGED <<tree, width, calls>>

Next == CallToToon \/ CallFromToon

Spec == Init /\ [][Next]_vars

\* toToon(tree, width) of the pipe-table variant
CallToToonPipe ==
    /\ pc = "ready"
    /\ result' = CallOfPipe(tree, width)
    /\ pc' = "encodedPipe"
    /\ UNCHANGED <<tree, width, calls>>

\* The variant's fromToon is the fromToon above.
NextPipe == CallToToonPipe \/ CallFromToon

SpecPipe == Init /\ [][NextPipe]_vars

-----------------------------------------------------------------------------
(* A client that makes several calls, one after the other, of the           *)
(* TypeScript toToon and of the Go ToToon; calls holds the calls made so    *)
(* far.                                                                      *)

MaxCalls == 3

\* The arguments of the calls: a mapping with two keys, a table with two
\* columns, a mapping nested in a mapping and a string.
CallValues ==
    {Obj(<< <<<<"a">>, Num(1, 0)>>, <<<<"b">>, Str(<<"x">>)>> >>),
     Arr(<< Obj(<< <<<<"a">>, Num(1, 0)>>, <<<<"b">>, Null>> >>) >>),
     Entry(<<"k">>, Entry(<<"a">>, Bool(TRUE))),
     Str(<<"x", ":">>)}

InitCalls ==
    /\ tree \in CallValues
    /\ width \in Widths
    /\ pc = "ready"
    /\ result = NoResult
    /\ calls = <<>>

\* ToToon(tree) of the Go port: the ranges of the call see some order.
CallGoToToon ==
    /\ pc = "ready"
    /\ \E order \in Orders(tree) :
          result' = Returned(ToToon(tree, order))
    /\ pc' = "encodedGo"
    /\ calls' = Append(calls, Call("ToToon", tree, DefaultIndent, result'))
    /\ UNCHANGED <<tree, width>>

\* The client picks the argument of its next call.
NextArgument ==
    /\ pc \in {"encoded", "encodedGo"}
    /\ Len(calls) < MaxCalls
    /\ \E v \in CallValues : tree' = v
    /\ pc' = "ready"
    /\ UNCHANGED <<width, result, calls>>

NextCalls == CallToToon \/ CallGoToToon \/ NextArgument

SpecCalls == InitCalls /\ [][NextCalls]_vars

-----------------------------------------------------------------------------
(* A client that encodes one value with the TypeScript toToon and then with *)
(* the ToToon of the Go port of the compact table encoder, both with the    *)
(* default indent.                                                           *)

\* Every mapping nested in the value has at most one key.
RECURSIVE AtMostOneKey(_)
AtMostOneKey(v) ==
    IF IsArray(v) THEN \A i \in 1..Len(v.items) : AtMostOneKey(v.items[i])
    ELSE IF IsObject(v)
         THEN Len(v.props) <= 1 /\ \A i \in 1..Len(v.props) : AtMostOneKey(v.props[i][2])
         ELSE TRUE

\* The values above whose mappings have at most one key, and tables with a
\* null cell.
PortValues ==
    {v \in Values : AtMostOneKey(v)}
        \cup {Item(Entry(<<"a">>, Null)),
              Arr(<<Entry(<<"a">>, Num(1, 0)), Entry(<<"a">>, Null)>>)}

InitPorts ==
    /\ tree \in PortValues
    /\ width = DefaultIndent
    /\ pc = "ready"
    /\ result = NoResult
    /\ calls = <<>>

\* ToToon(tree) of the Go port of the compact table encoder, after toToon.
CallGoCsvToToon ==
    /\ pc = "encoded"
    /\ \E order \in Orders(tree) :
          result' = Returned(ToToonCsv(tree, order))
    /\ pc' = "encodedGoCsv"
    /\ calls' = Append(calls, Call("ToToonCsv", tree, DefaultIndent, result'))
    /\ UNCHANGED <<tree, width>>

NextPorts == CallToToon \/ CallGoCsvToToon

SpecPorts == InitPorts /\ [][NextPorts]_vars

\* The encoding of string values: toToon on a mapping whose one entry is a
\* string over a letter, the double quote, the backslash and the newline.
MaxEscLen == 4

EscChars == {"n", DQ, BSL, NL}

EscStrings == UNION {[1..n -> EscChars] : n \in 0..MaxEscLen}

StringEntry(s) == Entry(<<"k">>, Str(s))

InitStrings ==
    /\ tree \in {StringEntry(s) : s \in EscStrings}
    /\ width \in Widths
    /\ pc = "ready"
    /\ result = NoResult
    /\ calls = <<>>

NextStrings == CallToToon

SpecStrings == InitStrings /\ [][NextStrings]_vars

-----------------------------------------------------------------------------
(* Helpers of the properties.                                              *)

Encoded == pc = "encoded"

\* The insertion-ordered keys of an object.
InsertedKeys(obj) == [i \in 1..Len(obj.props) |-> obj.props[i][1]]

HasKey(obj, k) == \E i \in 1..Len(obj.props) : obj.props[i][1] = k

RECURSIVE Lines(_)
\* The lines of a text: its parts between newline characters.
Lines(t) ==
    IF \A i \in 1..Len(t) : t[i] # NL THEN <<t>>
    ELSE LET n == CHOOSE i \in 1..Len(t) : t[i] = NL /\ \A j \in 1..(i - 1) : t[j] # NL
         IN  <<SubSeq(t, 1, n - 1)>> \o Lines(SubSeq(t, n + 1, Len(t)))

\* The escape of one character, read off the escaping rule: backslash,
\* double quote, newline, carriage return and tab become two characters.
EscapeOf(c) ==
    CASE c = BSL -> <<BSL, BSL>>
      [] c = DQ -> <<BSL, DQ>>
      [] c = NL -> <<BSL, "n">>
      [] c = CR -> <<BSL, "r">>
      [] c = TAB -> <<BSL, "t">>
      [] OTHER -> <<c>>

HasControl(s) == \E i \in 1..Len(s) : s[i] \in {NL, TAB, CR}

\* The token of the scalar-string policy: quoted and escaped character by
\* character if a control character is present, bare otherwise.
PolicyToken(s) ==
    IF HasControl(s)
    THEN <<DQ>> \o Flatten([i \in 1..Len(s) |-> EscapeOf(s[i])]) \o <<DQ>>
    ELSE s

\* A mapping with one entry whose value is a string / a list with one string.
IsStringEntry(v) ==
    v.kind = "object" /\ Len(v.props) = 1 /\ v.props[1][2].kind = "string"
IsStringItem(v) ==
    v.kind = "array" /\ Len(v.items) = 1 /\ v.items[1].kind = "string"

\* The number a decimal text denotes, as mantissa and number of fraction
\* digits: [-]digits[.digits]
ParseDecimal(t) ==
    LET neg == StartsWith(t, "-")
        body == IF neg THEN Tail(t) ELSE t
        dot == IF Includes(body, ".")
               THEN CHOOSE i \in 1..Len(body) : body[i] = "." ELSE Len(body) + 1
        ip == SubSeq(body, 1, dot - 1)
        fp == SubSeq(body, dot + 1, Len(body))
        m == ParseIndex(ip \o fp)
    IN  Num(IF neg THEN -m ELSE m, Len(fp))

-----------------------------------------------------------------------------
(* C1 .. C10                                                               *)

\* C1: toToon is total: every call on a well-formed value tree returns a
\* string and throws nothing.
C1_Totality == Encoded => ~result.threw

\* C2: fromToon fails on every input: whatever the string, the empty one
\* included, the call throws 'TOON parsing is not yet implemented' and
\* returns nothing.
C2_FromToonAlwaysThrows ==
    pc = "decoded" =>
        /\ result.threw
        /\ result.err = "TOON parsing is not yet implemented"
        /\ result.out = <<>>

\* fromToon was called on the empty string.
C2_Witness == pc = "decoded" /\ tree = Str(<<>>) /\ result.threw

\* C3: key-order preservation: the output of a non-empty mapping is its
\* entries in the order in which the keys were inserted.
C3_KeyOrder ==
    (Encoded /\ ~result.threw /\ tree.kind = "object" /\ Len(tree.props) > 0) =>
        result.out =
            Join(Flatten([i \in 1..Len(tree.props) |->
                            DictEntryLines(tree, tree.props[i][1], width, 0)]),
                 <<NL>>)

\* C4: tabular column union: for a sequence of mappings the header lists the
\* union of the keys in first-seen order, and each row has one cell per
\* column, empty where the element has no such key.
C4_ColumnUnion ==
    (/\ Encoded /\ ~result.threw
     /\ tree.kind = "array" /\ Len(tree.items) > 0
     /\ \A i \in 1..Len(tree.items) : IsObject(tree.items[i])) =>
        LET cols == FirstSeen(Flatten([i \in 1..Len(tree.items) |->
                                         InsertedKeys(tree.items[i])]))
            row(obj) ==
                <<" ", " ">> \o
                Join([j \in 1..Len(cols) |->
                        IF HasKey(obj, cols[j]) THEN Cell(obj, cols[j]) ELSE <<>>],
                     <<",">>)
        IN  cols # <<>> =>
                result.out =
                    Join(<< <<"[">> \o Digits(Len(tree.items)) \o <<"]", "{">>
                              \o Join(cols, <<",">>) \o <<"}", ":">> >>
                            \o [i \in 1..Len(tree.items) |-> row(tree.items[i])],
                         <<NL>>)

\* C5: control-character escaping inside containers: a string holding a
\* newline, tab or carriage return is emitted, as a mapping value and as a
\* list item, as one double-quoted token with backslash, double quote,
\* newline, carriage return and tab replaced by their two-character escapes
\* and no raw control character left; any other string is emitted bare and
\* unchanged.
C5_ControlEscaping ==
    Encoded =>
        /\ IsStringEntry(tree) =>
              /\ ~result.threw
              /\ result.out =
                    tree.props[1][1] \o <<":", " ">> \o PolicyToken(tree.props[1][2].s)
              /\ HasControl(tree.props[1][2].s) =>
                    /\ ~HasControl(result.out)
                    /\ EndsWith(result.out, DQ)
                    /\ result.out[Len(tree.props[1][1]) + 3] = DQ
        /\ IsStringItem(tree) =>
              /\ ~result.threw
              /\ result.out = <<"-", " ">> \o PolicyToken(tree.items[1].s)
              /\ HasControl(tree.items[1].s) =>
                    ~HasControl(result.out) /\ EndsWith(result.out, DQ) /\ result.out[3] = DQ

\* A string with a backslash and a carriage return was encoded as a mapping
\* value.
C5_Witness ==
    /\ Encoded /\ IsStringEntry(tree)
    /\ tree.props[1][2].s = <<BSL, CR>>
    /\ result.out = <<"k", ":", " ", DQ, BSL, BSL, BSL, "r", DQ>>

\* C6: a string passed directly to toToon follows the scalar-string policy:
\* quoted with every newline, tab and carriage return escaped if it holds
\* one of them, unchanged otherwise.
C6_TopLevelString ==
    (Encoded /\ tree.kind = "string") =>
        /\ ~result.threw
        /\ result.out = PolicyToken(tree.s)
        /\ ~HasControl(result.out)

\* C7: one escaping policy at all call sites: the text of a string as a
\* top-level value is the text emitted for it as a mapping value and as a
\* list item.
C7_OnePolicy ==
    (Encoded /\ tree.kind = "string") =>
        /\ toToon(Entry(<<"k">>, tree), width) = <<"k", ":", " ">> \o result.out
        /\ toToon(Item(tree), width) = <<"-", " ">> \o result.out

\* The entries of a mapping are scalars or empty containers.
IsFlat(obj) ==
    \A i \in 1..Len(obj.props) : ~IsComplex(obj.props[i][2])

\* C8: empty containers as mapping values render inline: an entry whose value
\* is an empty sequence (an empty mapping) is the single line 'key: []'
\* ('key: {}'), with no line break between the key and the literal.
C8_EmptyInline ==
    (/\ Encoded /\ ~result.threw
     /\ tree.kind = "object" /\ Len(tree.props) > 0 /\ IsFlat(tree)) =>
        LET ks == ObjectKeys(tree)
            ls == Lines(result.out)
        IN  /\ Len(ls) = Len(ks)
            /\ \A i \in 1..Len(ks) :
                  /\ GetProp(tree, ks[i]) = Arr(<<>>) =>
                        ls[i] = ks[i] \o <<":", " ", "[", "]">>
                  /\ GetProp(tree, ks[i]) = Obj(<<>>) =>
                        ls[i] = ks[i] \o <<":", " ", "{", "}">>

\* The table a sequence is rendered as under the label key at level L:
\* header, then one row per element prefixed by two spaces.
TableLayout(key, seq, L) ==
    LET cols == AllKeys(seq.items)
    IN  Join(<< Repeat(width * L) \o key \o <<"[">> \o Digits(Len(seq.items))
                   \o <<"]", "{">> \o Join(cols, <<",">>) \o <<"}", ":">> >>
                \o [i \in 1..Len(seq.items) |->
                      <<" ", " ">> \o Join([j \in 1..Len(cols) |->
                                               Cell(seq.items[i], cols[j])], <<",">>)],
             <<NL>>)

\* A mapping whose only entry is a non-empty sequence starting with a mapping.
IsTableEntry(v) ==
    /\ v.kind = "object" /\ Len(v.props) = 1
    /\ IsArray(v.props[1][2]) /\ FirstIsObject(v.props[1][2])

\* C9: compact-CSV table layout: a mapping entry at level L whose value is a
\* non-empty sequence with a mapping as first element is the header
\* indent*L spaces + key[count]{columns}: followed by one row per element,
\* each prefixed by exactly two spaces, cells joined by commas; at top level
\* the label is omitted; the users example is exactly
\* 'users[2]{name,age}:\n  Alice,30\n  Bob,25'.
C9_TableLayout ==
    Encoded =>
        /\ IsTableEntry(tree) =>
              /\ ~result.threw
              /\ result.out = TableLayout(tree.props[1][1], tree.props[1][2], 0)
        /\ (/\ tree.kind = "object" /\ Len(tree.props) = 1
            /\ IsTableEntry(tree.props[1][2])) =>
              /\ ~result.threw
              /\ result.out =
                    tree.props[1][1] \o <<":", NL>>
                        \o TableLayout(tree.props[1][2].props[1][1],
                                       tree.props[1][2].props[1][2], 1)
        /\ (IsArray(tree) /\ FirstIsObject(tree)) =>
              /\ ~result.threw
              /\ result.out = TableLayout(<<>>, tree, 0)
        /\ tree = UsersExample =>
              result.out =
                  <<"u", "s", "e", "r", "s", "[", "2", "]", "{", "n", "a", "m", "e",
                    ",", "a", "g", "e", "}", ":", NL, " ", " ", "A", "l", "i", "c", "e",
                    ",", "3", "0", NL, " ", " ", "B", "o", "b", ",", "2", "5">>

\* C10: top-level scalar dispatch: null, true and false give their names, a
\* number gives its decimal text (42 -> '42', 3.14 -> '3.14'), and a string
\* without newline, tab, colon, pipe and double quote gives itself.
C10_ScalarDispatch ==
    Encoded =>
        /\ tree = Null => result = Returned(<<"n", "u", "l", "l">>)
        /\ tree = Bool(TRUE) => result = Returned(<<"t", "r", "u", "e">>)
        /\ tree = Bool(FALSE) => result = Returned(<<"f", "a", "l", "s", "e">>)
        /\ tree.kind = "number" =>
              /\ ~result.threw
              /\ ParseDecimal(result.out) = tree
              /\ \A i \in 1..Len(result.out) :
                    IsDigit(result.out[i]) \/ result.out[i] \in {"-", "."}
        /\ tree = Num(42, 0) => result.out = <<"4", "2">>
        /\ tree = Num(314, 2) => result.out = <<"3", ".", "1", "4">>
        /\ (/\ tree.kind = "string"
            /\ \A c \in {NL, TAB, ":", "|", DQ} : ~Includes(tree.s, c)) =>
              result = Returned(tree.s)

\* toToon(3.14) returned '3.14'.
C10_Witness ==
    Encoded /\ tree = Num(314, 2) /\ result = Returned(<<"3", ".", "1", "4">>)

\* C11: toToon of a mapping with no keys is exactly '{}' and toToon of a
\* sequence with no elements is exactly '[]', for every indent width.
C11_EmptyLiterals ==
    Encoded =>
        /\ tree = Obj(<<>>) => result = Returned(<<"{", "}">>)
        /\ tree = Arr(<<>>) => result = Returned(<<"[", "]">>)

\* toToon({}, 0) returned '{}'.
C11_Witness ==
    Encoded /\ tree = Obj(<<>>) /\ width = 0 /\ result = Returned(<<"{", "}">>)

\* The values nested in a value, the value itself included.
RECURSIVE Subtrees(_)
Subtrees(v) ==
    {v} \cup
        (IF IsArray(v) THEN UNION {Subtrees(v.items[i]) : i \in 1..Len(v.items)}
         ELSE IF IsObject(v) THEN UNION {Subtrees(v.props[i][2]) : i \in 1..Len(v.props)}
         ELSE {})

\* The levels at which the blocks of the nested values are looked at.
Levels == 0..1

\* A text that was returned, ends with no newline and holds no empty line.
WellJoined(t) ==
    Thrown(t) \/ (/\ ~EndsWith(t, NL)
                  /\ \A i \in 1..(Len(t) - 1) : ~(t[i] = NL /\ t[i + 1] = NL))

\* C12: the string toToon returns, and the string of every recursive call of
\* dictToToon, listToToon and listOfObjectsToToon on a nested mapping or
\* sequence at any level, never ends with a newline, and its lines are
\* separated by single newlines.
C12_NoTrailingNewline ==
    Encoded =>
        /\ ~result.threw => WellJoined(result.out)
        /\ \A v \in Subtrees(tree) : \A L \in Levels :
              /\ IsObject(v) => WellJoined(dictToToon(v, width, L))
              /\ IsArray(v) =>
                    /\ WellJoined(listToToon(v, width, L))
                    /\ WellJoined(listOfObjectsToToon(<<"k">>, v, width, L))

\* toToon returned a block of several lines for a sequence that holds a
\* nested sequence.
C12_Witness ==
    /\ Encoded /\ ~result.threw
    /\ IsArray(tree)
    /\ \E i \in 1..Len(tree.items) : IsArray(tree.items[i]) /\ Len(tree.items[i].items) > 0
    /\ Len(Lines(result.out)) > 2

\* The output of a table of one row and one column c whose cell text is cell.
OneCellTable(cell) ==
    <<"[", "1", "]", "{", "c", "}", ":", NL>> \o dataPrefix \o cell

\* C15: quoting is idempotent in every cell context of the compact table: a
\* string the scalar encoder has wrapped in double quotes (it holds a control
\* character) appears in the cell as that token, not wrapped again, as a
\* direct scalar cell, as a value of a nested-mapping cell {n:v} and as a
\* sub-cell of a nested table cell [1]{n}:v.
C15_QuotingIdempotent ==
    Encoded =>
        \A s \in CellStrings :
            LET token == valueToToon(Str(s), 0, 0)
            IN  HasControl(s) =>
                  /\ AlreadyQuoted(token)
                  /\ tree = ScalarCellTable(s) =>
                        result = Returned(OneCellTable(token))
                  /\ tree = MappingCellTable(s) =>
                        result = Returned(OneCellTable(<<"{", "n", ":">> \o token \o <<"}">>))
                  /\ tree = TableCellTable(s) =>
                        result = Returned(OneCellTable(
                                     <<"[", "1", "]", "{", "n", "}", ":">> \o token))

\* The four characters that make the table encoder quote a scalar cell.
CellDelimiters == {",", NL, ":", ";"}

\* C16: in the compact table a scalar string cell that holds a comma,
\* newline, colon or semicolon is emitted in exactly one pair of double
\* quotes with every double quote of the string escaped as \", and a cell
\* that holds none of them gets no quotes from the table encoder.
C16_CellQuoting ==
    Encoded =>
        \A s \in CellStrings :
            tree = ScalarCellTable(s) =>
                IF \E c \in CellDelimiters : Includes(s, c)
                THEN result = Returned(OneCellTable(
                                  IF HasControl(s) THEN PolicyToken(s)
                                  ELSE Quoted(ReplaceAll(s, DQ, <<BSL, DQ>>))))
                ELSE result = Returned(OneCellTable(valueToToon(Str(s), 0, 0)))

\* The scalar values and their encoding as the scalar rules give it.
IsScalar(v) == v.kind \in {"null", "boolean", "number", "string"}
ScalarText(v) ==
    CASE v.kind = "null" -> <<"n", "u", "l", "l">>
      [] v.kind = "boolean" -> IF v.b THEN <<"t", "r", "u", "e">>
                                      ELSE <<"f", "a", "l", "s", "e">>
      [] v.kind = "number" -> NumberToString(v)
      [] v.kind = "string" -> PolicyToken(v.s)

\* The itemized form of a sequence at level L: one entry per element, in
\* order, each width*L spaces and '- ', then the scalar's encoding, or a
\* newline and the block of the nested element at the same level L.
ItemizedLayout(seq, L) ==
    Join([i \in 1..Len(seq.items) |->
            Repeat(width * L) \o <<"-", " ">>
                \o (IF IsScalar(seq.items[i]) THEN ScalarText(seq.items[i])
                    ELSE IF IsObject(seq.items[i])
                         THEN <<NL>> \o dictToToon(seq.items[i], width, L)
                         ELSE <<NL>> \o listToToon(seq.items[i], width, L))],
         <<NL>>)

\* A non-empty sequence whose first element is not a mapping.
IsItemized(v) == IsArray(v) /\ Len(v.items) > 0 /\ ~FirstIsObject(v)

\* A mapping whose only entry is such a sequence.
IsItemizedEntry(v) == IsObject(v) /\ Len(v.props) = 1 /\ IsItemized(v.props[1][2])

\* C17: a non-empty sequence whose first element is not a mapping is emitted
\* by listToToon at level L as one entry per element, in order, each starting
\* with indent*L spaces and '- ': a scalar follows on the same line, a nested
\* mapping or sequence follows after a newline as its own block at level L;
\* checked at level 0 (top level), 1 (value of a key) and 2, and
\* [1, 'hello', true, null] gives '- 1', '- hello', '- true', '- null'.
C17_ItemizedList ==
    Encoded =>
        /\ IsItemized(tree) => result = Returned(ItemizedLayout(tree, 0))
        /\ IsItemizedEntry(tree) =>
              result = Returned(tree.props[1][1] \o <<":", NL>>
                                    \o ItemizedLayout(tree.props[1][2], 1))
        /\ (/\ IsObject(tree) /\ Len(tree.props) = 1
            /\ IsItemizedEntry(tree.props[1][2])) =>
              LET inner == tree.props[1][2]
              IN  result = Returned(tree.props[1][1] \o <<":", NL>>
                                        \o Repeat(width) \o inner.props[1][1] \o <<":", NL>>
                                        \o ItemizedLayout(inner.props[1][2], 2))
        /\ tree = MixedExample =>
              Lines(result.out) = << <<"-", " ", "1">>,
                                     <<"-", " ", "h", "e", "l", "l", "o">>,
                                     <<"-", " ", "t", "r", "u", "e">>,
                                     <<"-", " ", "n", "u", "l", "l">> >>

\* A tree made only of non-empty mappings nested in mappings, with scalar
\* leaves.
RECURSIVE IsMappingTree(_)
IsMappingTree(v) ==
    /\ IsObject(v) /\ Len(v.props) > 0
    /\ \A i \in 1..Len(v.props) :
          IsScalar(v.props[i][2]) \/ IsMappingTree(v.props[i][2])

\* The lines of such a tree at depth L, key by key in the order the encoder
\* visits the keys: width*L spaces and the key, then ':' alone and the lines
\* of the nested mapping at depth L + 1, or ': ' and the scalar.
RECURSIVE MappingLines(_, _)
MappingLines(obj, L) ==
    LET ks == ObjectKeys(obj)
    IN  Flatten([i \in 1..Len(ks) |->
                   LET v == GetProp(obj, ks[i])
                   IN  IF IsScalar(v)
                       THEN << Repeat(width * L) \o ks[i] \o <<":", " ">> \o ScalarText(v) >>
                       ELSE << Repeat(width * L) \o ks[i] \o <<":">> >>
                                \o MappingLines(v, L + 1)])

\* C18: in a tree of mappings nested in mappings with scalar leaves, the line
\* of a key at depth L is exactly indentWidth*L spaces and the key, followed
\* by ':' and nothing else when its value is a non-empty mapping, whose lines
\* at depth L + 1 come immediately after, and by ': ' and the scalar
\* otherwise.
C18_MappingIndentation ==
    (Encoded /\ IsMappingTree(tree)) =>
        /\ ~result.threw
        /\ Lines(result.out) = MappingLines(tree, 0)

\* toToon of a mapping nested three deep, with indent width 2, returned a
\* line with four leading spaces.
C18_Witness ==
    /\ Encoded /\ ~result.threw /\ width = 2
    /\ IsMappingTree(tree)
    /\ \E l \in 1..Len(Lines(result.out)) :
          LET line == Lines(result.out)[l]
          IN  Len(line) > 4 /\ SubSeq(line, 1, 4) = <<" ", " ", " ", " ">> /\ line[5] # " "

\* The text t begins with the text p.
HasPrefix(t, p) == Len(t) >= Len(p) /\ SubSeq(t, 1, Len(p)) = p

\* The block ls (a sequence of lines) of a sequence of n elements under the
\* label key at level L is a table: its first line is the header
\* key[n]{...}: at the indentation of level L.
IsTabular(ls, key, n, L) ==
    /\ Len(ls) >= 1
    /\ HasPrefix(ls[1], Repeat(width * L) \o key \o <<"[">> \o Digits(n) \o <<"]", "{">>)
    /\ EndsWith(ls[1], ":")

\* The block ls is itemized at level L: its first line opens an entry.
IsItemizedBlock(ls, L) ==
    Len(ls) >= 1 /\ HasPrefix(ls[1], Repeat(width * L) \o <<"-", " ">>)

\* C20: a non-empty sequence, at top level or as the value of a mapping key,
\* is rendered as a table exactly when its first element is a mapping,
\* whatever the later elements are; otherwise it is itemized, also when a
\* later element is a mapping.
C20_FirstElementTieBreak ==
    Encoded =>
        /\ (IsArray(tree) /\ Len(tree.items) > 0) =>
              LET ls == Lines(result.out)
                  n == Len(tree.items)
              IN  /\ ~result.threw
                  /\ FirstIsObject(tree) <=> IsTabular(ls, <<>>, n, 0)
                  /\ ~FirstIsObject(tree) <=> IsItemizedBlock(ls, 0)
        /\ (/\ IsObject(tree) /\ Len(tree.props) = 1
            /\ IsArray(tree.props[1][2]) /\ Len(tree.props[1][2].items) > 0) =>
              LET ls == Lines(result.out)
                  key == tree.props[1][1]
                  seq == tree.props[1][2]
              IN  /\ ~result.threw
                  /\ FirstIsObject(seq) <=> IsTabular(ls, key, Len(seq.items), 0)
                  /\ ~FirstIsObject(seq) <=>
                        /\ Len(ls) >= 2 /\ ls[1] = key \o <<":">>
                        /\ IsItemizedBlock(Tail(ls), 1)

EncodedPipe == pc = "encodedPipe"

\* A mapping whose only entry is a non-empty sequence of mappings.
IsMappingsEntry(v) ==
    /\ IsObject(v) /\ Len(v.props) = 1
    /\ IsArray(v.props[1][2]) /\ Len(v.props[1][2].items) > 0
    /\ \A i \in 1..Len(v.props[1][2].items) : IsObject(v.props[1][2].items[i])

\* The pipe table of the sequence seq under the label key at level L, as
\* lines: the label, then at level L + 1 the header, the separator and one
\* row per element.
PipeTableLines(key, seq, L) ==
    LET cols == AllKeys(seq.items)
        at == Repeat(width * (L + 1))
    IN  << Repeat(width * L) \o key \o <<":">>,
           at \o Join(cols, <<" ", "|", " ">>),
           at \o Join([j \in 1..Len(cols) |-> <<"-", "-", "-">>], <<" ", "|", " ">>) >>
          \o [i \in 1..Len(seq.items) |->
                at \o Join([j \in 1..Len(cols) |-> PipeCell(seq.items[i], cols[j])],
                           <<" ", "|", " ">>)]

\* C14: in the pipe-table variant a mapping entry at level L whose value is
\* a non-empty sequence of mappings is the label line indent*L spaces + key
\* + ':' followed, at indent*(L+1) spaces, by the header of the columns
\* joined by ' | ', a separator of one '---' per column joined by ' | ', and
\* one row per element with its cells joined by ' | '; checked at levels 0
\* and 1, and the users example is exactly
\* 'users:\n  name | age\n  --- | ---\n  Alice | 30\n  Bob | 25'.
C14_PipeTable ==
    EncodedPipe =>
        /\ IsMappingsEntry(tree) =>
              result = Returned(Join(PipeTableLines(tree.props[1][1], tree.props[1][2], 0),
                                     <<NL>>))
        /\ (/\ IsObject(tree) /\ Len(tree.props) = 1
            /\ IsMappingsEntry(tree.props[1][2])) =>
              LET inner == tree.props[1][2]
              IN  result = Returned(tree.props[1][1] \o <<":", NL>>
                                        \o Join(PipeTableLines(inner.props[1][1],
                                                               inner.props[1][2], 1),
                                                <<NL>>))
        /\ (tree = UsersExample /\ width = 2) =>
              result.out =
                  <<"u", "s", "e", "r", "s", ":", NL,
                    " ", " ", "n", "a", "m", "e", " ", "|", " ", "a", "g", "e", NL,
                    " ", " ", "-", "-", "-", " ", "|", " ", "-", "-", "-", NL,
                    " ", " ", "A", "l", "i", "c", "e", " ", "|", " ", "3", "0", NL,
                    " ", " ", "B", "o", "b", " ", "|", " ", "2", "5">>

C19_GoDeterministic ==
    \A i, j \in 1..Len(calls) :
        (/\ calls[i].fn = "ToToon" /\ calls[j].fn = "ToToon"
         /\ calls[i].data = calls[j].data) =>
            calls[i].outcome = calls[j].outcome

\* The text of a value inside a nested cell: its scalar encoding, in double
\* quotes when it holds one of the characters of seps.
InCell(v, seps) ==
    LET t == valueToToon(v, 0, 0)
    IN  IF \E c \in seps : Includes(t, c) THEN <<DQ>> \o t \o <<DQ>> ELSE t

\* The cell of a mapping: {k:v,...} with the pairs in insertion order.
MappingCellText(m) ==
    <<"{">> \o Join([i \in 1..Len(m.props) |->
                        m.props[i][1] \o <<":">> \o InCell(m.props[i][2], {",", ":"})],
                    <<",">>)
           \o <<"}">>

\* The cell of a sequence that starts with a mapping:
\* [count]{sub-keys}:sub-row;sub-row, one sub-row per element that is a
\* mapping, a sub-cell of a missing or null key being empty.
TableCellText(q) ==
    LET ms == SelectSeq(q.items, IsObject)
        subKeys == AllKeys(ms)
        subCell(m, k) ==
            IF HasKey(m, k) /\ GetProp(m, k).kind # "null"
            THEN InCell(GetProp(m, k), {",", ";", ":"}) ELSE <<>>
    IN  <<"[">> \o Digits(Len(q.items)) \o <<"]", "{">> \o Join(subKeys, <<",">>)
            \o <<"}", ":">>
            \o Join([i \in 1..Len(ms) |->
                       Join([j \in 1..Len(subKeys) |-> subCell(ms[i], subKeys[j])],
                            <<",">>)],
                    <<";">>)

\* The cell of any other sequence: [v1,v2,...]
ListCellText(q) ==
    <<"[">> \o Join([i \in 1..Len(q.items) |-> valueToToon(q.items[i], 0, 0)], <<",">>)
           \o <<"]">>

\* C21: nested cells of a compact row: a mapping is '{' + the 'k:v' pairs
\* joined by ',' in key insertion order + '}'; a sequence whose first element
\* is a mapping is '[' + element count + ']{' + the sub-keys joined by ','
\* + '}:' + the sub-rows joined by ';' with sub-cells joined by ','; any
\* other sequence, the empty one included, is '[' + the element encodings
\* joined by ',' + ']'.
C21_NestedCells ==
    Encoded =>
        \A v \in CellValues :
            tree = Item(Entry(<<"c">>, v)) =>
                result = Returned(OneCellTable(
                             IF IsObject(v) THEN MappingCellText(v)
                             ELSE IF FirstIsObject(v) THEN TableCellText(v)
                             ELSE ListCellText(v)))

\* The output of a pipe table of one row and one column c whose cell text is
\* cell.
OneCellPipeTable(cell) ==
    <<"c", NL, "-", "-", "-", NL>> \o cell

\* C22: in the pipe-table encoders (the TypeScript variant and the Go port)
\* a cell whose string holds a pipe or a newline is emitted in exactly one
\* pair of double quotes, the pair the scalar encoder gave it, and is not
\* wrapped again; a cell that holds neither gets no quotes from the table
\* encoder. In both cases the cell is the scalar encoder's text.
C22_PipeCellQuoting ==
    EncodedPipe =>
        \A s \in CellStrings :
            tree = ScalarCellTable(s) =>
                /\ (Includes(s, "|") \/ Includes(s, NL)) =>
                      /\ AlreadyQuoted(valueToToonPipe(Str(s), 0, 0))
                      /\ AlreadyQuoted(escapeString(s))
                /\ result = Returned(OneCellPipeTable(valueToToonPipe(Str(s), 0, 0)))
                /\ ToToon(tree, <<<<"c">>>>) = OneCellPipeTable(escapeString(s))

\* C23: the TypeScript encoder and the Go port of the compact table encoder
\* compute the same function on values whose mappings have at most one key:
\* toToon and ToToon return the same string for the same value, also for a
\* table with a null cell, a top-level string with a colon and a table
\* sequence with a non-mapping element after the first.
C23_PortsAgree ==
    pc = "encodedGoCsv" =>
        /\ Len(calls) = 2
        /\ calls[1].fn = "toToon" /\ calls[2].fn = "ToToonCsv"
        /\ calls[1].data = calls[2].data
        /\ calls[1].outcome = calls[2].outcome

\* A sequence of mappings, at least one with a key, whose values are null,
\* booleans, numbers and strings without a delimiter or a control character:
\* each of its cells is the plain scalar text.
IsPlainTable(v) ==
    /\ IsArray(v) /\ Len(v.items) > 0
    /\ \A i \in 1..Len(v.items) :
          /\ IsObject(v.items[i])
          /\ \A j \in 1..Len(v.items[i].props) :
                LET x == v.items[i].props[j][2]
                IN  /\ IsScalar(x)
                    /\ x.kind = "string" =>
                          \A c \in {",", ":", ";", NL, TAB, CR, DQ} : ~Includes(x.s, c)
    /\ \E i \in 1..Len(v.items) : Len(v.items[i].props) > 0

\* C24: in a row of a compact table a column whose key is present in the
\* element with the value null is the text 'null', and only a column whose
\* key is absent from the element is the empty string.
C24_NullCell ==
    (Encoded /\ IsPlainTable(tree)) =>
        LET cols == AllKeys(tree.items)
            ls == Lines(result.out)
        IN  /\ ~result.threw
            /\ Len(ls) = Len(tree.items) + 1
            /\ \A i \in 1..Len(tree.items) :
                  ls[i + 1] =
                      <<" ", " ">>
                          \o Join([j \in 1..Len(cols) |->
                                     IF HasKey(tree.items[i], cols[j])
                                     THEN ScalarText(GetProp(tree.items[i], cols[j]))
                                     ELSE <<>>],
                                  <<",">>)

\* The line l carries the key k as its label at the top level: it begins with
\* k at column 0, followed by ':' (a scalar, a nested block) or by '[' (a
\* table header).
IsLabelled(l, k) ==
    HasPrefix(l, k \o <<":">>) \/ HasPrefix(l, k \o <<"[">>)

\* C25: no key is dropped: for every non-empty mapping and every key of it,
\* whatever its value, the output of dictToToon has a line at the mapping's
\* indentation that begins with the key as its label.
C25_NoKeyDropped ==
    (Encoded /\ IsObject(tree) /\ Len(tree.props) > 0 /\ ~result.threw) =>
        \A i \in 1..Len(tree.props) :
            \E n \in 1..Len(Lines(result.out)) :
                IsLabelled(Lines(result.out)[n], tree.props[i][1])

RECURSIVE SplitOn(_, _)
\* The parts of the text t between occurrences of the character c.
SplitOn(t, c) ==
    IF \A i \in 1..Len(t) : t[i] # c THEN <<t>>
    ELSE LET n == CHOOSE i \in 1..Len(t) : t[i] = c /\ \A j \in 1..(i - 1) : t[j] # c
         IN  <<SubSeq(t, 1, n - 1)>> \o SplitOn(SubSeq(t, n + 1, Len(t)), c)

\* The column names of a header line label[count]{c1,c2}: of a table whose
\* keys hold no comma and no brace.
HeaderColumns(l) ==
    LET open == CHOOSE i \in 1..Len(l) : l[i] = "{" /\ \A j \in 1..(i - 1) : l[j] # "{"
    IN  SplitOn(SubSeq(l, open + 1, Len(l) - 2), ",")

\* C26: the columns of a table come only from its mapping elements: each
\* column name of the header is a key of at least one element that is a
\* mapping; strings, numbers, booleans and sequences contribute no column.
C26_ColumnsFromMappings ==
    (/\ Encoded /\ IsArray(tree) /\ ~result.threw
     /\ IsTabular(Lines(result.out), <<>>, Len(tree.items), 0)) =>
        LET cols == HeaderColumns(Lines(result.out)[1])
        IN  \A j \in 1..Len(cols) :
                \E i \in 1..Len(tree.items) :
                    IsObject(tree.items[i]) /\ HasKey(tree.items[i], cols[j])

\* C27: a sequence rendered as a compact table with at least one column is
\* a block of exactly 1 + count lines, count being the number printed in the
\* header: the header line and one line per row, no row holding a raw
\* newline, whatever values the cells hold.
C27_TableBlockShape ==
    (/\ Encoded /\ IsArray(tree) /\ ~result.threw
     /\ IsTabular(Lines(result.out), <<>>, Len(tree.items), 0)) =>
        Len(Lines(result.out)) = 1 + Len(tree.items)

\* C28: the encoding of a string value is injective over strings of letters,
\* double quotes, backslashes and newlines: the text valueToToon gives for a
\* string is the text it gives for no other string, so a string with a raw
\* newline never reads as a string that begins and ends with a double quote
\* and holds a backslash and the letter n.
C28_StringEncodingInjective ==
    (Encoded /\ \E s \in EscStrings : tree = StringEntry(s)) =>
        \A t \in EscStrings :
            StringEntry(t) # tree =>
                /\ result # Returned(toToon(StringEntry(t), width))
                /\ valueToToon(tree.props[1][2], width, 0) # valueToToon(Str(t), width, 0)

\* C29: the literal '[]' is reserved for the empty sequence: toToon returns
\* it for no sequence that has an element, a sequence whose elements are all
\* empty mappings included.
C29_EmptyListReserved ==
    (Encoded /\ IsArray(tree) /\ Len(tree.items) > 0) =>
        result # Returned(Lit_emptyList)

====
